---- MODULE Spec2Model ----
(***************************************************************************)
(* Model of rraytracer (src/src/main.rs): the frame scheduler of main, the *)
(* per-pixel compositing of render_scene and intersect_ray_sphere.         *)
(*                                                                         *)
(* Three specifications share the module:                                  *)
(*   Spec / FairSpec  the scheduler loop of main and its rendering units   *)
(*   SpecRender       render_scene on two-sphere scenes                    *)
(*   SpecIntersect    intersect_ray_sphere on arbitrary rays               *)
(* f64 values are modelled as integers, fractions as fixed point with      *)
(* denominator FP; sqrt rounds down (ISqrt).                               *)
(***************************************************************************)
EXTENDS Integers, Sequences, FiniteSets, Bags, TLC

VARIABLES
    pc,        \* position of the main thread
    x,         \* loop variable of `for x in 1..313`
    ts,        \* Vec<JoinHandle>: frame indices of the handles, in push order
    pos,       \* number of handles the running into_iter() join loop has consumed
    unit,      \* state of the thread spawned for each frame index
    files,     \* bag of the filenames image.save was called with
    waited,    \* history: units that were outstanding when a batch wait began
    scene, light_dir, image, si, px, rpc,   \* render_scene
    ray, sphere, hit, ipc                    \* intersect_ray_sphere

vars == <<pc, x, ts, pos, unit, files, waited,
          scene, light_dir, image, si, px, rpc, ray, sphere, hit, ipc>>
schedVars == <<pc, x, ts, pos, unit, files, waited>>
renderVars == <<scene, light_dir, image, si, px, rpc>>
isectVars == <<ray, sphere, hit, ipc>>

-----------------------------------------------------------------------------
(* Bounds *)
MaxThreads == 2      \* max_threads, 32 in main
NumFrames == 7       \* number of frames of the range, 312 in main
NameRange == 120     \* indices over which the filename format is compared

(* Program constants *)
FirstFrame == 1

Frames == FirstFrame .. (FirstFrame + NumFrames - 1)

Range(s) == {s[i] : i \in 1..Len(s)}

-----------------------------------------------------------------------------
(* format!("render{x:03}.png") *)
RECURSIVE Digits(_)
Digits(n) == IF n < 10 THEN <<n>> ELSE Append(Digits(n \div 10), n % 10)

RECURSIVE PadZero(_, _)
PadZero(d, w) == IF Len(d) >= w THEN d ELSE PadZero(<<0>> \o d, w)

FileNameWrap(n) == <<"render">> \o PadZero(Digits(n % 100), 2) \o <<".png">>
FileName(n) == <<"render">> \o PadZero(Digits(n), 3) \o <<".png">>

-----------------------------------------------------------------------------
(* Scheduler: main *)

Running == {"rendering", "saving"}

BatchFullLate(n) == n > MaxThreads + 1
BatchFullEarly(n) == n >= MaxThreads
\* if ts.len() > max_threads
BatchFull(n) == n > MaxThreads

JoinReturnsAtOnce(i) == TRUE
JoinReturnsAfterRender(i) == unit[i] # "rendering"
\* t.join() blocks until the thread has ended
JoinReturns(i) == unit[i] \notin Running

JoinPanicsNever(i) == FALSE
\* t.join().unwrap() panics when the thread panicked
JoinPanics(i) == unit[i] = "panicked"

Outstanding == {ts[i] : i \in (pos + 1)..Len(ts)}

SchedInit ==
    /\ pc = "loop"
    /\ x = FirstFrame
    /\ ts = <<>>
    /\ pos = 0
    /\ unit = [i \in Frames |-> "unspawned"]
    /\ files = EmptyBag
    /\ waited = {}

\* one iteration of the for loop up to the test of ts.len()
Spawn ==
    /\ pc = "loop"
    /\ x \in Frames
    /\ unit' = [unit EXCEPT ![x] = "rendering"]
    /\ ts' = Append(ts, x)
    /\ x' = x + 1
    /\ IF BatchFull(Len(ts'))
         THEN /\ pc' = "join_batch"
              /\ waited' = waited \cup Range(ts')
         ELSE /\ pc' = "loop"
              /\ waited' = waited
    /\ pos' = 0
    /\ UNCHANGED files

\* one t.join().unwrap() of the loop at lines 188-190
JoinBatch ==
    /\ pc = "join_batch"
    /\ pos < Len(ts)
    /\ JoinReturns(ts[pos + 1])
    /\ pos' = pos + 1
    /\ pc' = IF JoinPanics(ts[pos + 1]) THEN "panicked" ELSE pc
    /\ UNCHANGED <<x, ts, unit, files, waited>>

\* the join loop is exhausted: ts = Vec::new()
EndBatchWait ==
    /\ pc = "join_batch"
    /\ pos = Len(ts)
    /\ ts' = <<>>
    /\ pos' = 0
    /\ pc' = "loop"
    /\ UNCHANGED <<x, unit, files, waited>>

\* the range 1..313 is exhausted
LoopExit ==
    /\ pc = "loop"
    /\ x \notin Frames
    /\ pc' = "join_final"
    /\ pos' = 0
    /\ UNCHANGED <<x, ts, unit, files, waited>>

\* one t.join().unwrap() of the loop at lines 194-196
JoinFinal ==
    /\ pc = "join_final"
    /\ pos < Len(ts)
    /\ JoinReturns(ts[pos + 1])
    /\ pos' = pos + 1
    /\ pc' = IF JoinPanics(ts[pos + 1]) THEN "panicked" ELSE pc
    /\ UNCHANGED <<x, ts, unit, files, waited>>

\* main returns
Return ==
    /\ pc = "join_final"
    /\ pos = Len(ts)
    /\ pc' = "done"
    /\ UNCHANGED <<x, ts, pos, unit, files, waited>>

\* the thread closure builds its scene and renders it
UnitRender(i) ==
    /\ unit[i] = "rendering"
    /\ unit' = [unit EXCEPT ![i] = "saving"]
    /\ UNCHANGED <<pc, x, ts, pos, files, waited>>

\* image.save(format!(..)) returns Ok
UnitSaveOk(i) ==
    /\ unit[i] = "saving"
    /\ unit' = [unit EXCEPT ![i] = "finished"]
    /\ files' = files (+) SetToBag({FileName(i)})
    /\ UNCHANGED <<pc, x, ts, pos, waited>>

\* image.save(format!(..)) returns Err and unwrap panics the thread
UnitSaveErr(i) ==
    /\ unit[i] = "saving"
    /\ unit' = [unit EXCEPT ![i] = "panicked"]
    /\ files' = files (+) SetToBag({FileName(i)})
    /\ UNCHANGED <<pc, x, ts, pos, waited>>

MainStep == Spawn \/ JoinBatch \/ EndBatchWait \/ LoopExit \/ JoinFinal \/ Return
UnitStep(i) == UnitRender(i) \/ UnitSaveOk(i) \/ UnitSaveErr(i)

SchedNext ==
    /\ \/ Spawn
       \/ JoinBatch
       \/ EndBatchWait
       \/ LoopExit
       \/ JoinFinal
       \/ Return
       \/ \E i \in Frames : UnitRender(i)
       \/ \E i \in Frames : UnitSaveOk(i)
       \/ \E i \in Frames : UnitSaveErr(i)
    /\ UNCHANGED <<renderVars, isectVars>>

-----------------------------------------------------------------------------
(* Vector algebra.  A vector is a triple; the scale of its components is   *)
(* the caller's.                                                            *)

Max(a, b) == IF a >= b THEN a ELSE b
Min(a, b) == IF a <= b THEN a ELSE b

\* division of f64 modelled as integer division rounding toward zero
TDiv(a, b) == IF a >= 0 THEN a \div b ELSE -((-a) \div b)

RECURSIVE ISqrtIn(_, _, _)
ISqrtIn(n, lo, hi) ==
    IF lo >= hi THEN lo
    ELSE LET mid == (lo + hi + 1) \div 2
         IN  IF mid * mid <= n THEN ISqrtIn(n, mid, hi) ELSE ISqrtIn(n, lo, mid - 1)
\* f64::sqrt, rounded down to an integer
ISqrt(n) == ISqrtIn(n, 0, n)

FP == 16    \* denominator of the fixed-point values

Add(a, b) == <<a[1] + b[1], a[2] + b[2], a[3] + b[3]>>
Mul(a, k) == <<a[1] * k, a[2] * k, a[3] * k>>
Sub(a, b) == <<a[1] - b[1], a[2] - b[2], a[3] - b[3]>>
Dot(a, b) == a[1] * b[1] + a[2] * b[2] + a[3] * b[3]
LengthSquared(a) == Dot(a, a)
Length(a) == ISqrt(LengthSquared(a))

\* a surface normal: nan is set when normalize divided zero by zero
\* normalize: the result has denominator FP
Normalize(a) ==
    LET length == Length(a)
    IN  IF length = 0
          THEN [some |-> TRUE, nan |-> TRUE, n |-> <<0, 0, 0>>]
          ELSE [some |-> TRUE, nan |-> FALSE,
                n |-> <<TDiv(a[1] * FP, length), TDiv(a[2] * FP, length),
                        TDiv(a[3] * FP, length)>>]

None == [some |-> FALSE, nan |-> FALSE, n |-> <<0, 0, 0>>]

-----------------------------------------------------------------------------
(* intersect_ray_sphere: ray and sphere have integer components *)

BehindNever(angle) == FALSE
\* if angle < 0.0
BehindOrigin(angle) == angle < 0

IntersectRaySphere(r, s) ==
    LET l == Sub(s.center, r.origin)
        angle == Dot(l, r.direction)
        d2 == LengthSquared(l) - angle * angle
        r2 == s.radius * s.radius
    IN  IF BehindOrigin(angle) THEN None
        ELSE IF d2 > r2 THEN None
        ELSE LET half_angle == ISqrt((r2 - d2) * FP * FP)
                 t0 == angle * FP - half_angle
                 hit_point == Add(Mul(r.origin, FP), Mul(r.direction, t0))
             IN  Normalize(Sub(hit_point, Mul(s.center, FP)))

-----------------------------------------------------------------------------
(* render_scene *)

Width == 2
Height == 2
Pixels == 0 .. (Width * Height - 1)
\* enumerate_pixels_mut is row-major
PixelX(k) == k % Width
PixelY(k) == k \div Width

Background == <<0, 0, 0>>

PixelRay(k) == [origin |-> <<PixelX(k), PixelY(k), 0>>, direction |-> <<0, 0, 1>>]

NoHitNormalBack == <<0, 0, -FP>>
\* None => Vector::new(0.0, 0.0, 0.0)
NoHitNormal == <<0, 0, 0>>

HitNormal(k, s) ==
    LET h == IntersectRaySphere(PixelRay(k), s)
    IN  IF h.some THEN h ELSE [some |-> TRUE, nan |-> FALSE, n |-> NoHitNormal]

\* light_dir.dot(&hit_normal).max(0.0), with denominator FP * FP;
\* f64::max drops a NaN operand
LightIntensity(light, h) == IF h.nan THEN 0 ELSE Max(Dot(light, h.n), 0)

\* (light_intensity * c) as u8: rounds toward zero and saturates
Channel(intensity, c) == Min(255, (intensity * c) \div (FP * FP))

Shade(k, s, light) ==
    LET i == LightIntensity(light, HitNormal(k, s))
    IN  <<Channel(i, s.r), Channel(i, s.g), Channel(i, s.b)>>

\* if rgb[0] > 0 || rgb[1] > 1 || rgb[2] > 0
Visible(rgb) == rgb[1] > 0 \/ rgb[2] > 1 \/ rgb[3] > 0

BlendKeepFirst(old, color) == IF old = Background THEN color ELSE old
\* pixel.blend(&color): Pixel::blend of Rgb replaces the pixel
Blend(old, color) == color

Composite(old, color) == IF Visible(color) THEN Blend(old, color) ELSE old

\* the pixel after the spheres sc[1..n] were processed in order
RECURSIVE PixelAfter(_, _, _, _)
PixelAfter(sc, n, light, k) ==
    IF n = 0 THEN Background
    ELSE Composite(PixelAfter(sc, n - 1, light, k), Shade(k, sc[n], light))

Swap(sc) == <<sc[2], sc[1]>>

Geometries ==
    { [center |-> <<0, 0, 2>>, radius |-> 1],
      [center |-> <<1, 1, -1>>, radius |-> 2],
      [center |-> <<1, 0, 0>>, radius |-> 1] }
ColorVals == {0, 1, 200}
SphereSet ==
    { [center |-> g.center, radius |-> g.radius, r |-> c[1], g |-> c[2], b |-> c[3]] :
        g \in Geometries, c \in ColorVals \X ColorVals \X ColorVals }
Lights == { <<0, 0, -FP>>, <<0, 0, FP>>, <<-FP, 0, 0>>, <<FP, FP \div 2, -2 * FP>> }

RenderInit ==
    /\ scene \in SphereSet \X SphereSet
    /\ light_dir \in Lights
    /\ image = [k \in Pixels |-> Background]
    /\ si = 1
    /\ px = 0
    /\ rpc = "render"

\* the body of the pixel loop for sphere si and pixel px
RenderPixel ==
    /\ rpc = "render"
    /\ image' = [image EXCEPT ![px] = Composite(image[px], Shade(px, scene[si], light_dir))]
    /\ IF px + 1 < Width * Height
         THEN px' = px + 1 /\ si' = si /\ rpc' = rpc
         ELSE /\ px' = 0
              /\ si' = si + 1
              /\ rpc' = IF si < Len(scene) THEN "render" ELSE "done"
    /\ UNCHANGED <<scene, light_dir>>

IdleSched ==
    /\ pc = "idle" /\ x = 0 /\ ts = <<>> /\ pos = 0
    /\ unit = <<>> /\ files = EmptyBag /\ waited = {}
IdleRender ==
    /\ scene = <<>> /\ light_dir = <<0, 0, 0>> /\ image = <<>>
    /\ si = 0 /\ px = 0 /\ rpc = "idle"
IdleIsect ==
    /\ ray = <<>> /\ sphere = <<>> /\ hit = None /\ ipc = "idle"

InitRender == IdleSched /\ RenderInit /\ IdleIsect
NextRender == RenderPixel /\ UNCHANGED <<schedVars, isectVars>>
SpecRender == InitRender /\ [][NextRender]_vars

-----------------------------------------------------------------------------
(* intersect_ray_sphere on arbitrary rays *)

Origins == { <<0, 0, 0>>, <<1, 0, 0>>, <<0, 0, 3>> }
Directions == { <<0, 0, 1>>, <<0, 0, -1>>, <<1, 0, 0>>, <<0, 1, 0>> }
Centers == { <<0, 0, 2>>, <<0, 0, -1>>, <<1, 1, 0>>, <<3, 0, 1>>, <<0, 0, 0>> }
Radii == { 1, 2 }

IsectInit ==
    /\ ray \in [origin : Origins, direction : Directions]
    /\ sphere \in [center : Centers, radius : Radii]
    /\ hit = None
    /\ ipc = "call"

Intersect ==
    /\ ipc = "call"
    /\ hit' = IntersectRaySphere(ray, sphere)
    /\ ipc' = "returned"
    /\ UNCHANGED <<ray, sphere>>

InitIntersect == IdleSched /\ IdleRender /\ IsectInit
NextIntersect == Intersect /\ UNCHANGED <<schedVars, renderVars>>
SpecIntersect == InitIntersect /\ [][NextIntersect]_vars

-----------------------------------------------------------------------------
Init == SchedInit /\ IdleRender /\ IdleIsect
Next == SchedNext
Spec == Init /\ [][Next]_vars

\* the threads and main are scheduled by the operating system: each one that
\* can take a step eventually does
FairSpec ==
    /\ Spec
    /\ WF_vars(MainStep /\ UNCHANGED <<renderVars, isectVars>>)
    /\ \A i \in Frames : WF_vars(UnitStep(i) /\ UNCHANGED <<renderVars, isectVars>>)

-----------------------------------------------------------------------------
(* Properties of the scheduler *)

Spawned == {i \in Frames : unit[i] # "unspawned"}
Failed == {i \in Frames : unit[i] = "panicked"}
Handed(i) == CopiesIn(FileName(i), files)

\* C1: in every reachable state of the scheduler the number of units spawned
\* and not yet joined is at most max_threads + 1.
C1_InFlightBound == Cardinality(Outstanding) <= MaxThreads + 1
\* the bound is reached: max_threads + 1 units are outstanding and running
C1_Witness ==
    /\ Cardinality(Outstanding) = MaxThreads + 1
    /\ \A i \in Outstanding : unit[i] \in Running

\* C2: every frame index is handed to image.save at most once, under
\* render<index padded to 3 digits>.png, distinct indices never share a
\* filename, and unless a unit fails every frame of the range is eventually
\* handed over exactly once.
C2_ExactlyOnce ==
    /\ [](\A i \in Frames : Handed(i) <= 1)
    /\ [](\A n \in BagToSet(files) : \E i \in Spawned : n = FileName(i))
    /\ [](\A i \in Frames : Len(FileName(i)) = 5 /\ FileName(i)[4] = i % 10)
    /\ [](\A i, j \in 1..NameRange : i # j => FileName(i) # FileName(j))
    /\ (<>(Failed # {}) \/ <>[](\A i \in Frames : Handed(i) = 1))
\* main has returned and every frame was handed over once
C2_Witness ==
    /\ pc = "done"
    /\ \A i \in Frames : Handed(i) = 1
    /\ Cardinality(BagToSet(files)) = NumFrames

\* C3: while a unit that was outstanding when a batch wait began is still
\* running, no frame admitted after that moment exists.
C3_BatchWait ==
    (\E j \in Spawned : j \notin waited) =>
        \A i \in waited : unit[i] \notin Running
\* a frame of a later batch is running after an earlier batch was waited on
C3_Witness ==
    /\ waited # {}
    /\ \E j \in Spawned : j \notin waited /\ unit[j] \in Running

\* C4: when main has returned every unit of the range has finished and has
\* handed its image over, and main eventually returns unless a unit fails.
C4_ReturnAfterAll ==
    /\ [](pc = "done" =>
            \A i \in Frames : unit[i] = "finished" /\ Handed(i) = 1)
    /\ <>(pc = "done" \/ Failed # {})
\* main returned after a final wait that joined a non-empty partial batch
C4_Witness == pc = "done" /\ Len(ts) > 0 /\ pos = Len(ts)

\* C5: a failed unit stays failed and its frame is not handed over again;
\* the scheduler never gets past the join of a failed unit, its panic is
\* final (no frame is admitted after it, main does not return), main never
\* returns when a unit failed, and every failure eventually panics main.
C5_FailureIsFatal ==
    /\ [][\A i \in Frames : unit[i] = "panicked" =>
            unit'[i] = "panicked" /\ Handed(i)' = Handed(i)]_vars
    /\ [](\A i \in Failed : i \in Outstanding \/ pc = "panicked")
    /\ [][pc = "panicked" => pc' = "panicked" /\ Spawned' = Spawned]_vars
    /\ [](pc = "done" => Failed = {})
    /\ [](Failed # {} => <>(pc = "panicked"))
\* the failure of a unit of the final partial batch has ended main
C5_Witness ==
    /\ pc = "panicked"
    /\ x \notin Frames
    /\ \E i \in Failed : \A j \in Failed : j = i

\* C10: frames are admitted in increasing order; a batch wait joins exactly
\* max_threads + 1 consecutive frames starting at 1, 1 + (K+1), ...; the
\* final wait joins N mod (K+1) units; the list is empty after a batch wait.
C10_BatchShape ==
    /\ [](\A k \in 1..(Len(ts) - 1) : ts[k + 1] = ts[k] + 1)
    /\ [](pc = "loop" => Len(ts) <= MaxThreads)
    /\ [](pc = "join_batch" =>
            /\ Len(ts) = MaxThreads + 1
            /\ (ts[1] - FirstFrame) % (MaxThreads + 1) = 0)
    /\ [](pc \in {"join_final", "done"} => Len(ts) = NumFrames % (MaxThreads + 1))
    /\ [][pc = "join_batch" /\ pc' = "loop" => ts' = <<>>]_vars
\* the final wait has joined all N mod (K+1) units after at least one batch wait
C10_Witness ==
    /\ pc = "join_final"
    /\ pos = Len(ts)
    /\ Len(ts) > 0
    /\ waited # {}

-----------------------------------------------------------------------------
(* Properties of render_scene *)

AnyPositive(rgb) == rgb[1] > 0 \/ rgb[2] > 0 \/ rgb[3] > 0
IsHit(k, s) == IntersectRaySphere(PixelRay(k), s).some

\* C6: the shaded color of a sphere replaces the pixel if and only if one of
\* its channels is strictly positive.
C6_CompositeIffPositive ==
    [][rpc = "render" =>
        LET color == Shade(px, scene[si], light_dir)
        IN  image'[px] = IF AnyPositive(color) THEN color ELSE image[px]]_vars

\* C7 as stated: where both spheres are hit the later one's shading is the
\* pixel, in both orders; where exactly one is hit both orders agree.
C7_LastHitWins ==
    rpc = "done" =>
        \A k \in Pixels :
            /\ (IsHit(k, scene[1]) /\ IsHit(k, scene[2])) =>
                 /\ image[k] = Shade(k, scene[2], light_dir)
                 /\ PixelAfter(Swap(scene), 2, light_dir, k) = Shade(k, scene[1], light_dir)
            /\ (IsHit(k, scene[1]) # IsHit(k, scene[2])) =>
                 image[k] = PixelAfter(Swap(scene), 2, light_dir, k)

\* C7 amended: where the shaded colors of both spheres pass the test of
\* line 128 the later one's shading is the pixel, in both orders; where
\* exactly one sphere is hit both orders agree.
C7_LastVisibleWins ==
    rpc = "done" =>
        \A k \in Pixels :
            /\ (Visible(Shade(k, scene[1], light_dir)) /\ Visible(Shade(k, scene[2], light_dir))) =>
                 /\ image[k] = Shade(k, scene[2], light_dir)
                 /\ PixelAfter(Swap(scene), 2, light_dir, k) = Shade(k, scene[1], light_dir)
            /\ (IsHit(k, scene[1]) # IsHit(k, scene[2])) =>
                 image[k] = PixelAfter(Swap(scene), 2, light_dir, k)
\* a pixel where both spheres are drawn with different colors, and a pixel
\* where exactly one is hit and drawn
C7_Witness ==
    /\ rpc = "done"
    /\ \E k \in Pixels :
        /\ Visible(Shade(k, scene[1], light_dir))
        /\ Visible(Shade(k, scene[2], light_dir))
        /\ Shade(k, scene[1], light_dir) # Shade(k, scene[2], light_dir)
    /\ \E k \in Pixels :
        /\ IsHit(k, scene[1]) # IsHit(k, scene[2])
        /\ image[k] # Background

\* C8: a pixel whose ray misses the sphere being processed keeps its color,
\* and a pixel missed by every sphere of the scene ends as the background.
C8_MissKeepsPixel ==
    /\ [][(rpc = "render" /\ ~IsHit(px, scene[si])) => image'[px] = image[px]]_vars
    /\ [](rpc = "done" =>
            \A k \in Pixels :
                (\A n \in 1..Len(scene) : ~IsHit(k, scene[n])) => image[k] = Background)
\* the second sphere misses a pixel the first sphere has colored, under a
\* light that points along the ray
C8_Witness ==
    /\ rpc = "done"
    /\ \E k \in Pixels :
        /\ ~IsHit(k, scene[2])
        /\ image[k] # Background
    /\ \E k \in Pixels : ~IsHit(k, scene[1]) /\ ~IsHit(k, scene[2])

-----------------------------------------------------------------------------
(* Properties of intersect_ray_sphere *)

Angle(r, s) == Dot(Sub(s.center, r.origin), r.direction)
Inside(r, s) == LengthSquared(Sub(s.center, r.origin)) < s.radius * s.radius

\* C9: when the projection of center - origin on the direction is negative
\* intersect_ray_sphere returns None.
C9_BehindIsNone ==
    (ipc = "returned" /\ Angle(ray, sphere) < 0) => ~hit.some
\* None was returned for a ray whose origin is inside the sphere
C9_Witness ==
    /\ ipc = "returned"
    /\ Angle(ray, sphere) < 0
    /\ Inside(ray, sphere)
    /\ ~hit.some

====
